---- MODULE Spec2Model ----
(***************************************************************************)
(* Copilot CLI provider (cli_agent_orchestrator/providers/copilot_cli.py): *)
(* status classification of a terminal scrollback and extraction of the    *)
(* agent's last response.                                                  *)
(*                                                                         *)
(* Text is a sequence of characters.  A printable character is the         *)
(* one-character string itself; a control byte is a named token (ESC is    *)
(* 0x1b, BEL 0x07, NUL 0x00, FS 0x1c, DEL 0x7f; "\n", "\t", "\r" are the   *)
(* usual ones).                                                            *)
(***************************************************************************)
EXTENDS Integers, Sequences, FiniteSets, TLC

VARIABLES
    history,        \* the pane's scrollback, kept by the terminal driver
    chunks,         \* number of pieces of output the terminal has printed
    keys,           \* the command lines sent to the pane with send_keys, in order
    agent_profile,  \* self._agent_profile
    initialized,    \* self._initialized
    pc,             \* where the running initialize call stands ("none": no call)
    polls,          \* get_status calls made by the running wait_until_status
    result,         \* what the last initialize, exit_cli or get_idle_pattern_for_log
                    \* call came to
    output,         \* what get_history returned to the last get_status call
    status,         \* what the last get_status call returned
    script,         \* script_output of the last extraction call
    answer          \* what the last extraction call came to

\* the provider object's own fields
provider == <<agent_profile, initialized>>

\* the record of the last get_status and extraction calls; it is kept until the
\* terminal prints again
calls == <<output, status, script, answer>>

vars == <<history, chunks, keys, agent_profile, initialized, pc, polls, result,
          output, status, script, answer>>

----------------------------------------------------------------------------
(* Characters and character classes of Python's re on str patterns.        *)

ESC == "ESC"
BEL == "BEL"
NUL == "NUL"
FS  == "FS"
DEL == "DEL"

\* the whitespace of Unicode from U+0100 on, each code point by its number:
\* U+1680, U+2000 to U+200A, U+2028, U+2029, U+202F, U+205F, U+3000
WideWhitespace ==
    {"U+1680", "U+2000", "U+2001", "U+2002", "U+2003", "U+2004", "U+2005", "U+2006",
     "U+2007", "U+2008", "U+2009", "U+200A", "U+2028", "U+2029", "U+202F", "U+205F",
     "U+3000"}

\* \s on str, and the characters str.strip() removes: the twelve code points below
\* U+0100 (\t \n \x0b \x0c \r \x1c to \x1f, space, \x85, \xa0) and the wide ones
Whitespace ==
    {" ", "\t", "\n", "\r", "VT", "FF", FS, "GS", "RS", "US", "NEL", "NBSP"}
        \cup WideWhitespace

\* 0-9 in a character class
AsciiDigits == {"0", "1", "2", "3", "4", "5", "6", "7", "8", "9"}

\* the decimal digits of Unicode (category Nd) other than 0-9, each code point by
\* its number
UnicodeDigits ==
    {"U+0660", "U+0661", "U+0662", "U+0663", "U+0664", "U+0665", "U+0666", "U+0667",
     "U+0668", "U+0669", "U+06F0", "U+06F1", "U+06F2", "U+06F3", "U+06F4", "U+06F5",
     "U+06F6", "U+06F7", "U+06F8", "U+06F9", "U+07C0", "U+07C1", "U+07C2", "U+07C3",
     "U+07C4", "U+07C5", "U+07C6", "U+07C7", "U+07C8", "U+07C9", "U+0966", "U+0967",
     "U+0968", "U+0969", "U+096A", "U+096B", "U+096C", "U+096D", "U+096E", "U+096F",
     "U+09E6", "U+09E7", "U+09E8", "U+09E9", "U+09EA", "U+09EB", "U+09EC", "U+09ED",
     "U+09EE", "U+09EF", "U+0A66", "U+0A67", "U+0A68", "U+0A69", "U+0A6A", "U+0A6B",
     "U+0A6C", "U+0A6D", "U+0A6E", "U+0A6F", "U+0AE6", "U+0AE7", "U+0AE8", "U+0AE9",
     "U+0AEA", "U+0AEB", "U+0AEC", "U+0AED", "U+0AEE", "U+0AEF", "U+0B66", "U+0B67",
     "U+0B68", "U+0B69", "U+0B6A", "U+0B6B", "U+0B6C", "U+0B6D", "U+0B6E", "U+0B6F",
     "U+0BE6", "U+0BE7", "U+0BE8", "U+0BE9", "U+0BEA", "U+0BEB", "U+0BEC", "U+0BED",
     "U+0BEE", "U+0BEF", "U+0C66", "U+0C67", "U+0C68", "U+0C69", "U+0C6A", "U+0C6B",
     "U+0C6C", "U+0C6D", "U+0C6E", "U+0C6F", "U+0CE6", "U+0CE7", "U+0CE8", "U+0CE9",
     "U+0CEA", "U+0CEB", "U+0CEC", "U+0CED", "U+0CEE", "U+0CEF", "U+0D66", "U+0D67",
     "U+0D68", "U+0D69", "U+0D6A", "U+0D6B", "U+0D6C", "U+0D6D", "U+0D6E", "U+0D6F",
     "U+0DE6", "U+0DE7", "U+0DE8", "U+0DE9", "U+0DEA", "U+0DEB", "U+0DEC", "U+0DED",
     "U+0DEE", "U+0DEF", "U+0E50", "U+0E51", "U+0E52", "U+0E53", "U+0E54", "U+0E55",
     "U+0E56", "U+0E57", "U+0E58", "U+0E59", "U+0ED0", "U+0ED1", "U+0ED2", "U+0ED3",
     "U+0ED4", "U+0ED5", "U+0ED6", "U+0ED7", "U+0ED8", "U+0ED9", "U+0F20", "U+0F21",
     "U+0F22", "U+0F23", "U+0F24", "U+0F25", "U+0F26", "U+0F27", "U+0F28", "U+0F29",
     "U+1040", "U+1041", "U+1042", "U+1043", "U+1044", "U+1045", "U+1046", "U+1047",
     "U+1048", "U+1049", "U+1090", "U+1091", "U+1092", "U+1093", "U+1094", "U+1095",
     "U+1096", "U+1097", "U+1098", "U+1099", "U+17E0", "U+17E1", "U+17E2", "U+17E3",
     "U+17E4", "U+17E5", "U+17E6", "U+17E7", "U+17E8", "U+17E9", "U+1810", "U+1811",
     "U+1812", "U+1813", "U+1814", "U+1815", "U+1816", "U+1817", "U+1818", "U+1819",
     "U+1946", "U+1947", "U+1948", "U+1949", "U+194A", "U+194B", "U+194C", "U+194D",
     "U+194E", "U+194F", "U+19D0", "U+19D1", "U+19D2", "U+19D3", "U+19D4", "U+19D5",
     "U+19D6", "U+19D7", "U+19D8", "U+19D9", "U+1A80", "U+1A81", "U+1A82", "U+1A83",
     "U+1A84", "U+1A85", "U+1A86", "U+1A87", "U+1A88", "U+1A89", "U+1A90", "U+1A91",
     "U+1A92", "U+1A93", "U+1A94", "U+1A95", "U+1A96", "U+1A97", "U+1A98", "U+1A99",
     "U+1B50", "U+1B51", "U+1B52", "U+1B53", "U+1B54", "U+1B55", "U+1B56", "U+1B57",
     "U+1B58", "U+1B59", "U+1BB0", "U+1BB1", "U+1BB2", "U+1BB3", "U+1BB4", "U+1BB5",
     "U+1BB6", "U+1BB7", "U+1BB8", "U+1BB9", "U+1C40", "U+1C41", "U+1C42", "U+1C43",
     "U+1C44", "U+1C45", "U+1C46", "U+1C47", "U+1C48", "U+1C49", "U+1C50", "U+1C51",
     "U+1C52", "U+1C53", "U+1C54", "U+1C55", "U+1C56", "U+1C57", "U+1C58", "U+1C59",
     "U+A620", "U+A621", "U+A622", "U+A623", "U+A624", "U+A625", "U+A626", "U+A627",
     "U+A628", "U+A629", "U+A8D0", "U+A8D1", "U+A8D2", "U+A8D3", "U+A8D4", "U+A8D5",
     "U+A8D6", "U+A8D7", "U+A8D8", "U+A8D9", "U+A900", "U+A901", "U+A902", "U+A903",
     "U+A904", "U+A905", "U+A906", "U+A907", "U+A908", "U+A909", "U+A9D0", "U+A9D1",
     "U+A9D2", "U+A9D3", "U+A9D4", "U+A9D5", "U+A9D6", "U+A9D7", "U+A9D8", "U+A9D9",
     "U+A9F0", "U+A9F1", "U+A9F2", "U+A9F3", "U+A9F4", "U+A9F5", "U+A9F6", "U+A9F7",
     "U+A9F8", "U+A9F9", "U+AA50", "U+AA51", "U+AA52", "U+AA53", "U+AA54", "U+AA55",
     "U+AA56", "U+AA57", "U+AA58", "U+AA59", "U+ABF0", "U+ABF1", "U+ABF2", "U+ABF3",
     "U+ABF4", "U+ABF5", "U+ABF6", "U+ABF7", "U+ABF8", "U+ABF9", "U+FF10", "U+FF11",
     "U+FF12", "U+FF13", "U+FF14", "U+FF15", "U+FF16", "U+FF17", "U+FF18", "U+FF19",
     "U+104A0", "U+104A1", "U+104A2", "U+104A3", "U+104A4", "U+104A5", "U+104A6",
     "U+104A7", "U+104A8", "U+104A9", "U+10D30", "U+10D31", "U+10D32", "U+10D33",
     "U+10D34", "U+10D35", "U+10D36", "U+10D37", "U+10D38", "U+10D39", "U+11066",
     "U+11067", "U+11068", "U+11069", "U+1106A", "U+1106B", "U+1106C", "U+1106D",
     "U+1106E", "U+1106F", "U+110F0", "U+110F1", "U+110F2", "U+110F3", "U+110F4",
     "U+110F5", "U+110F6", "U+110F7", "U+110F8", "U+110F9", "U+11136", "U+11137",
     "U+11138", "U+11139", "U+1113A", "U+1113B", "U+1113C", "U+1113D", "U+1113E",
     "U+1113F", "U+111D0", "U+111D1", "U+111D2", "U+111D3", "U+111D4", "U+111D5",
     "U+111D6", "U+111D7", "U+111D8", "U+111D9", "U+112F0", "U+112F1", "U+112F2",
     "U+112F3", "U+112F4", "U+112F5", "U+112F6", "U+112F7", "U+112F8", "U+112F9",
     "U+11450", "U+11451", "U+11452", "U+11453", "U+11454", "U+11455", "U+11456",
     "U+11457", "U+11458", "U+11459", "U+114D0", "U+114D1", "U+114D2", "U+114D3",
     "U+114D4", "U+114D5", "U+114D6", "U+114D7", "U+114D8", "U+114D9", "U+11650",
     "U+11651", "U+11652", "U+11653", "U+11654", "U+11655", "U+11656", "U+11657",
     "U+11658", "U+11659", "U+116C0", "U+116C1", "U+116C2", "U+116C3", "U+116C4",
     "U+116C5", "U+116C6", "U+116C7", "U+116C8", "U+116C9", "U+11730", "U+11731",
     "U+11732", "U+11733", "U+11734", "U+11735", "U+11736", "U+11737", "U+11738",
     "U+11739", "U+118E0", "U+118E1", "U+118E2", "U+118E3", "U+118E4", "U+118E5",
     "U+118E6", "U+118E7", "U+118E8", "U+118E9", "U+11950", "U+11951", "U+11952",
     "U+11953", "U+11954", "U+11955", "U+11956", "U+11957", "U+11958", "U+11959",
     "U+11C50", "U+11C51", "U+11C52", "U+11C53", "U+11C54", "U+11C55", "U+11C56",
     "U+11C57", "U+11C58", "U+11C59", "U+11D50", "U+11D51", "U+11D52", "U+11D53",
     "U+11D54", "U+11D55", "U+11D56", "U+11D57", "U+11D58", "U+11D59", "U+11DA0",
     "U+11DA1", "U+11DA2", "U+11DA3", "U+11DA4", "U+11DA5", "U+11DA6", "U+11DA7",
     "U+11DA8", "U+11DA9", "U+16A60", "U+16A61", "U+16A62", "U+16A63", "U+16A64",
     "U+16A65", "U+16A66", "U+16A67", "U+16A68", "U+16A69", "U+16AC0", "U+16AC1",
     "U+16AC2", "U+16AC3", "U+16AC4", "U+16AC5", "U+16AC6", "U+16AC7", "U+16AC8",
     "U+16AC9", "U+16B50", "U+16B51", "U+16B52", "U+16B53", "U+16B54", "U+16B55",
     "U+16B56", "U+16B57", "U+16B58", "U+16B59", "U+1D7CE", "U+1D7CF", "U+1D7D0",
     "U+1D7D1", "U+1D7D2", "U+1D7D3", "U+1D7D4", "U+1D7D5", "U+1D7D6", "U+1D7D7",
     "U+1D7D8", "U+1D7D9", "U+1D7DA", "U+1D7DB", "U+1D7DC", "U+1D7DD", "U+1D7DE",
     "U+1D7DF", "U+1D7E0", "U+1D7E1", "U+1D7E2", "U+1D7E3", "U+1D7E4", "U+1D7E5",
     "U+1D7E6", "U+1D7E7", "U+1D7E8", "U+1D7E9", "U+1D7EA", "U+1D7EB", "U+1D7EC",
     "U+1D7ED", "U+1D7EE", "U+1D7EF", "U+1D7F0", "U+1D7F1", "U+1D7F2", "U+1D7F3",
     "U+1D7F4", "U+1D7F5", "U+1D7F6", "U+1D7F7", "U+1D7F8", "U+1D7F9", "U+1D7FA",
     "U+1D7FB", "U+1D7FC", "U+1D7FD", "U+1D7FE", "U+1D7FF", "U+1E140", "U+1E141",
     "U+1E142", "U+1E143", "U+1E144", "U+1E145", "U+1E146", "U+1E147", "U+1E148",
     "U+1E149", "U+1E2F0", "U+1E2F1", "U+1E2F2", "U+1E2F3", "U+1E2F4", "U+1E2F5",
     "U+1E2F6", "U+1E2F7", "U+1E2F8", "U+1E2F9", "U+1E950", "U+1E951", "U+1E952",
     "U+1E953", "U+1E954", "U+1E955", "U+1E956", "U+1E957", "U+1E958", "U+1E959",
     "U+1FBF0", "U+1FBF1", "U+1FBF2", "U+1FBF3", "U+1FBF4", "U+1FBF5", "U+1FBF6",
     "U+1FBF7", "U+1FBF8", "U+1FBF9"}

\* \d on str: every decimal digit of Unicode
Digits == AsciiDigits \cup UnicodeDigits

LowerLetters == {"a", "b", "c", "d", "e", "f", "g", "h", "i", "j", "k", "l", "m",
                 "n", "o", "p", "q", "r", "s", "t", "u", "v", "w", "x", "y", "z"}

UpperLetters == {"A", "B", "C", "D", "E", "F", "G", "H", "I", "J", "K", "L", "M",
                 "N", "O", "P", "Q", "R", "S", "T", "U", "V", "W", "X", "Y", "Z"}

\* [a-zA-Z]
Letters == LowerLetters \cup UpperLetters

LowerOf ==
    ("A" :> "a") @@ ("B" :> "b") @@ ("C" :> "c") @@ ("D" :> "d") @@ ("E" :> "e") @@
    ("F" :> "f") @@ ("G" :> "g") @@ ("H" :> "h") @@ ("I" :> "i") @@ ("J" :> "j") @@
    ("K" :> "k") @@ ("L" :> "l") @@ ("M" :> "m") @@ ("N" :> "n") @@ ("O" :> "o") @@
    ("P" :> "p") @@ ("Q" :> "q") @@ ("R" :> "r") @@ ("S" :> "s") @@ ("T" :> "t") @@
    ("U" :> "u") @@ ("V" :> "v") @@ ("W" :> "w") @@ ("X" :> "x") @@ ("Y" :> "y") @@
    ("Z" :> "z")

\* str.lower(), one character
Lower(c) == IF c \in UpperLetters THEN LowerOf[c] ELSE c

\* the index of the first character at or after i that is not in S (Len(s)+1 if none):
\* where a greedy S* that starts at i ends
RECURSIVE SkipWhile(_, _, _)
SkipWhile(s, i, S) ==
    IF i <= Len(s) /\ s[i] \in S THEN SkipWhile(s, i + 1, S) ELSE i

\* the least element of a non-empty set of integers
Min(S) == CHOOSE x \in S : \A y \in S : x <= y

\* the indices of s, in order
Indices(s) == [i \in 1..Len(s) |-> i]

\* the index of the first occurrence of character c at or after i (past the end of
\* s if none)
FirstFrom(s, i, c) ==
    IF i > Len(s) THEN i
    ELSE Min({j \in i..(Len(s) + 1) : j = Len(s) + 1 \/ s[j] = c})

\* the literal lit stands in s at index i
LiteralAt(s, i, lit) ==
    /\ i >= 1
    /\ i + Len(lit) - 1 <= Len(s)
    /\ \A k \in 1..Len(lit) : s[i + k - 1] = lit[k]

\* str.strip()
RECURSIVE StripEnd(_, _)
StripEnd(s, j) == IF j >= 1 /\ s[j] \in Whitespace THEN StripEnd(s, j - 1) ELSE j

Strip(s) == SubSeq(s, SkipWhile(s, 1, Whitespace), StripEnd(s, Len(s)))

\* s[start:end] of Python on 0-based offsets start, end with 0 <= start, end <= len(s)
Slice(s, start, end) == SubSeq(s, start + 1, end)

----------------------------------------------------------------------------
(* The module-level patterns.                                              *)

\* ANSI_CODE_PATTERN = r"\x1b\[[0-9;]*m"
ANSI_CODE_PATTERN(s, i) ==
    IF s[i] = ESC /\ i + 1 <= Len(s) /\ s[i + 1] = "["
    THEN LET j == SkipWhile(s, i + 2, AsciiDigits \cup {";"})
         IN  IF j <= Len(s) /\ s[j] = "m" THEN j ELSE 0
    ELSE 0

\* ESCAPE_SEQUENCE_PATTERN = r"\[[?0-9;]*[a-zA-Z]"
ESCAPE_SEQUENCE_PATTERN(s, i) ==
    IF s[i] = "["
    THEN LET j == SkipWhile(s, i + 1, AsciiDigits \cup {";", "?"})
         IN  IF j <= Len(s) /\ s[j] \in Letters THEN j ELSE 0
    ELSE 0

\* \x00-\x1f, the C0 controls
C0Controls == {NUL, "SOH", "STX", "ETX", "EOT", "ENQ", "ACK", BEL, "BS", "\t", "\n",
               "VT", "FF", "\r", "SO", "SI", "DLE", "DC1", "DC2", "DC3", "DC4", "NAK",
               "SYN", "ETB", "CAN", "EM", "SUB", ESC, FS, "GS", "RS", "US"}

\* \x80-\x9f, the C1 controls
C1Controls == {"PAD", "HOP", "BPH", "NBH", "IND", "NEL", "SSA", "ESA", "HTS", "HTJ",
               "VTS", "PLD", "PLU", "RI", "SS2", "SS3", "DCS", "PU1", "PU2", "STS",
               "CCH", "MW", "SPA", "EPA", "SOS", "SGCI", "SCI", "CSI", "ST", "OSC",
               "PM", "APC"}

\* [\x00-\x1f\x7f-\x9f]
ControlChars == C0Controls \cup {DEL} \cup C1Controls

\* CONTROL_CHAR_PATTERN = r"[\x00-\x1f\x7f-\x9f]"
CONTROL_CHAR_PATTERN(s, i) == IF s[i] \in ControlChars THEN i ELSE 0

\* the index of the last character of the match of the named module-level pattern
\* that starts at index i of s, or 0 when the pattern does not match there
MatchEnd(pattern, s, i) ==
    CASE pattern = "ANSI_CODE_PATTERN" -> ANSI_CODE_PATTERN(s, i)
      [] pattern = "ESCAPE_SEQUENCE_PATTERN" -> ESCAPE_SEQUENCE_PATTERN(s, i)
      [] pattern = "CONTROL_CHAR_PATTERN" -> CONTROL_CHAR_PATTERN(s, i)

\* re.sub(pattern, "", s): the text without the matches found from left to right.
\* A match of one of the three patterns holds the character it starts with (ESC,
\* "[", a control character) at its first place only, so no match starts inside
\* another and the matches found are all the places where the pattern matches.
re_sub(pattern, s) ==
    LET matched == UNION { i..MatchEnd(pattern, s, i) :
                           i \in {j \in 1..Len(s) : MatchEnd(pattern, s, j) > 0} }
        kept == SelectSeq(Indices(s), LAMBDA i : i \notin matched)
    IN  [k \in 1..Len(kept) |-> s[kept[k]]]

\* ERROR_INDICATORS
ERROR_INDICATORS ==
    { <<"C", "o", "p", "i", "l", "o", "t", " ", "i", "s", " ", "h", "a", "v", "i", "n",
        "g", " ", "t", "r", "o", "u", "b", "l", "e", " ", "r", "e", "s", "p", "o", "n",
        "d", "i", "n", "g", " ", "r", "i", "g", "h", "t", " ", "n", "o", "w">> }

\* ^ under re.MULTILINE: the start of the text or just after a line feed
LineStart(s, i) == i = 1 \/ s[i - 1] = "\n"

\* list(re.finditer(GREEN_ARROW_PATTERN, s, re.MULTILINE)) with
\* GREEN_ARROW_PATTERN = r"^>\s*": the matches in order, each as <<start, end>> in
\* 0-based offsets (m.start(), m.end()).  A match takes ">" and whitespace only,
\* so it never covers the ">" of another match.
GreenArrows(s) ==
    LET starts == SelectSeq(Indices(s), LAMBDA i : LineStart(s, i) /\ s[i] = ">")
    IN  [k \in 1..Len(starts) |->
            <<starts[k] - 1, SkipWhile(s, starts[k] + 1, Whitespace) - 1>>]

----------------------------------------------------------------------------
(* The patterns built in __init__ from the agent profile.                  *)

\* the characters re.escape puts a backslash before
RegexSpecial == {"(", ")", "[", "]", "{", "}", "?", "*", "+", "-", "|", "^", "$",
                 "\\", ".", "&", "~", "#", " ", "\t", "\n", "\r", "VT", "FF"}

\* re.escape(profile): one pattern atom per character, <<"\\", c>> for a special
\* character and <<c>> for any other
re_escape(profile) ==
    [k \in 1..Len(profile) |->
        IF profile[k] \in RegexSpecial THEN <<"\\", profile[k]>> ELSE <<profile[k]>>]

\* an atom of an escaped literal matches the one character it stands for
AtomMatches(atom, c) == atom[Len(atom)] = c

\* the escaped literal stands in s at index i
EscapedAt(s, i, atoms) ==
    /\ i + Len(atoms) - 1 <= Len(s)
    /\ \A k \in 1..Len(atoms) : AtomMatches(atoms[k], s[i + k - 1])

\* $ at index q (the position before s[q]): the end of the text, or just before a
\* line feed that ends the text; under re.MULTILINE also just before any line feed
DollarAt(s, q, multiline) ==
    \/ q = Len(s) + 1
    \/ q = Len(s) /\ s[q] = "\n"
    \/ multiline /\ q <= Len(s) /\ s[q] = "\n"

\* self._idle_prompt_pattern =
\*     rf"\[{re.escape(self._agent_profile)}\]\s*(?:\d+%\s*)?!?>\s*[\s\n]*$"
\* matches at index i of s.  The classes that follow one another are disjoint, so
\* each greedy repetition takes all it can; only the trailing whitespace run is
\* given back, to let $ match inside it.
idle_prompt_pattern(profile, s, i, multiline) ==
    LET atoms == re_escape(profile)
        close == i + 1 + Len(atoms)
    IN  /\ i <= Len(s) /\ s[i] = "["
        /\ EscapedAt(s, i + 1, atoms)
        /\ close <= Len(s) /\ s[close] = "]"
        /\ LET j1 == SkipWhile(s, close + 1, Whitespace)
               k  == SkipWhile(s, j1, Digits)
               j2 == IF k > j1 /\ k <= Len(s) /\ s[k] = "%"
                     THEN SkipWhile(s, k + 1, Whitespace) ELSE j1
               j3 == IF j2 <= Len(s) /\ s[j2] = "!" THEN j2 + 1 ELSE j2
           IN  /\ j3 <= Len(s) /\ s[j3] = ">"
               /\ LET w == SkipWhile(s, j3 + 1, Whitespace)
                  IN  \E q \in (j3 + 1)..w : DollarAt(s, q, multiline)

\* list(re.finditer(self._idle_prompt_pattern, s)): the matches as <<start, end>>
\* in 0-based offsets.  The leftmost match is found first and runs to the end of the
\* text (the whitespace run is taken whole), so the search that goes on from there
\* finds no other.
IdlePrompts(profile, s) ==
    LET starts == SelectSeq(Indices(s),
                            LAMBDA i : idle_prompt_pattern(profile, s, i, FALSE))
    IN  IF starts = <<>> THEN <<>> ELSE << <<starts[1] - 1, Len(s)>> >>

AllowThisAction ==
    <<"A", "l", "l", "o", "w", " ", "t", "h", "i", "s", " ", "a", "c", "t", "i", "o",
      "n", "?">>

\* the index of the first occurrence of the literal lit at or after i (Len(s)+1 if none)
FirstLiteralFrom(s, i, lit) ==
    Min({j \in i..(Len(s) + 1) : j = Len(s) + 1 \/ LiteralAt(s, j, lit)})

\* the index after the first occurrence of character c at or after i
After(s, i, c) == FirstFrom(s, i, c) + 1

\* re.search(self._permission_prompt_pattern, s, re.MULTILINE | re.DOTALL) with
\* self._permission_prompt_pattern =
\*     r"Allow this action\?.*\[.*y.*\/.*n.*\/.*t.*\]:\s*" + self._idle_prompt_pattern
\* Under DOTALL each .* spans anything, so a match exists iff one exists that takes
\* the first "Allow this action?", then the first "[", "y", "/", "n", "/", "t" in
\* turn, and then some "]:" followed by whitespace and the idle prompt.
permission_prompt_pattern(profile, s) ==
    LET a == FirstLiteralFrom(s, 1, AllowThisAction) + Len(AllowThisAction)
        t == After(s, After(s, After(s, After(s, After(s, After(s, a,
                 "["), "y"), "/"), "n"), "/"), "t")
    IN  \E c \in t..Len(s) :
           /\ LiteralAt(s, c, <<"]", ":">>)
           /\ idle_prompt_pattern(profile, s, SkipWhile(s, c + 2, Whitespace), TRUE)

\* indicator.lower() in clean_output.lower()
InLower(indicator, s) ==
    \E i \in 1..(Len(s) - Len(indicator) + 1) :
        \A k \in 1..Len(indicator) : Lower(s[i + k - 1]) = Lower(indicator[k])

----------------------------------------------------------------------------
(* The provider's pure computations.                                       *)

\* the checks of get_status on the color-stripped snapshot
ErrorCheck(clean_output) ==
    \E indicator \in ERROR_INDICATORS : InLower(indicator, clean_output)

\* get_status, were the error phrases looked for before the idle prompt
get_status_error_before_idle(profile, out) ==
    IF out = <<>> THEN "ERROR"
    ELSE LET clean_output == re_sub("ANSI_CODE_PATTERN", out)
         IN  IF ErrorCheck(clean_output) THEN "ERROR"
             ELSE IF IdlePrompts(profile, clean_output) = <<>> THEN "PROCESSING"
             ELSE IF permission_prompt_pattern(profile, clean_output)
                  THEN "WAITING_USER_ANSWER"
             ELSE IF GreenArrows(clean_output) # <<>> THEN "COMPLETED"
             ELSE "IDLE"

\* get_status, were the permission prompt looked for before the error phrases
get_status_permission_before_error(profile, out) ==
    IF out = <<>> THEN "ERROR"
    ELSE LET clean_output == re_sub("ANSI_CODE_PATTERN", out)
         IN  IF IdlePrompts(profile, clean_output) = <<>> THEN "PROCESSING"
             ELSE IF permission_prompt_pattern(profile, clean_output)
                  THEN "WAITING_USER_ANSWER"
             ELSE IF ErrorCheck(clean_output) THEN "ERROR"
             ELSE IF GreenArrows(clean_output) # <<>> THEN "COMPLETED"
             ELSE "IDLE"

\* get_status, were the response marker looked for before the permission prompt
get_status_completed_before_permission(profile, out) ==
    IF out = <<>> THEN "ERROR"
    ELSE LET clean_output == re_sub("ANSI_CODE_PATTERN", out)
         IN  IF IdlePrompts(profile, clean_output) = <<>> THEN "PROCESSING"
             ELSE IF ErrorCheck(clean_output) THEN "ERROR"
             ELSE IF GreenArrows(clean_output) # <<>> THEN "COMPLETED"
             ELSE IF permission_prompt_pattern(profile, clean_output)
                  THEN "WAITING_USER_ANSWER"
             ELSE "IDLE"

\* get_status, were the response marker looked for without re.MULTILINE (at the
\* start of the snapshot only)
get_status_marker_not_multiline(profile, out) ==
    IF out = <<>> THEN "ERROR"
    ELSE LET clean_output == re_sub("ANSI_CODE_PATTERN", out)
         IN  IF IdlePrompts(profile, clean_output) = <<>> THEN "PROCESSING"
             ELSE IF ErrorCheck(clean_output) THEN "ERROR"
             ELSE IF permission_prompt_pattern(profile, clean_output)
                  THEN "WAITING_USER_ANSWER"
             ELSE IF clean_output[1] = ">" THEN "COMPLETED"
             ELSE "IDLE"

\* get_status, were the permission prompt not looked for
get_status_no_permission_check(profile, out) ==
    IF out = <<>> THEN "ERROR"
    ELSE LET clean_output == re_sub("ANSI_CODE_PATTERN", out)
         IN  IF IdlePrompts(profile, clean_output) = <<>> THEN "PROCESSING"
             ELSE IF ErrorCheck(clean_output) THEN "ERROR"
             ELSE IF GreenArrows(clean_output) # <<>> THEN "COMPLETED"
             ELSE "IDLE"

\* get_status, were the empty snapshot not returned on at once
get_status_no_empty_check(profile, out) ==
    LET clean_output == re_sub("ANSI_CODE_PATTERN", out)
    IN  IF IdlePrompts(profile, clean_output) = <<>> THEN "PROCESSING"
        ELSE IF ErrorCheck(clean_output) THEN "ERROR"
        ELSE IF permission_prompt_pattern(profile, clean_output)
             THEN "WAITING_USER_ANSWER"
        ELSE IF GreenArrows(clean_output) # <<>> THEN "COMPLETED"
        ELSE "IDLE"

\* get_status, were the response marker looked for in the last line of the
\* snapshot only
get_status_marker_in_last_line(profile, out) ==
    IF out = <<>> THEN "ERROR"
    ELSE LET clean_output == re_sub("ANSI_CODE_PATTERN", out)
             arrows == GreenArrows(clean_output)
         IN  IF IdlePrompts(profile, clean_output) = <<>> THEN "PROCESSING"
             ELSE IF ErrorCheck(clean_output) THEN "ERROR"
             ELSE IF permission_prompt_pattern(profile, clean_output)
                  THEN "WAITING_USER_ANSWER"
             ELSE IF \E k \in 1..Len(arrows) :
                        \A i \in (arrows[k][1] + 1)..Len(clean_output) :
                            clean_output[i] # "\n"
                  THEN "COMPLETED"
             ELSE "IDLE"

\* get_status, were the response marker looked for before the idle prompt
get_status_completed_before_idle(profile, out) ==
    IF out = <<>> THEN "ERROR"
    ELSE LET clean_output == re_sub("ANSI_CODE_PATTERN", out)
         IN  IF GreenArrows(clean_output) # <<>> THEN "COMPLETED"
             ELSE IF IdlePrompts(profile, clean_output) = <<>> THEN "PROCESSING"
             ELSE IF ErrorCheck(clean_output) THEN "ERROR"
             ELSE IF permission_prompt_pattern(profile, clean_output)
                  THEN "WAITING_USER_ANSWER"
             ELSE "IDLE"

\* get_status, were the response marker looked for before the error phrases
get_status_completed_before_error(profile, out) ==
    IF out = <<>> THEN "ERROR"
    ELSE LET clean_output == re_sub("ANSI_CODE_PATTERN", out)
         IN  IF IdlePrompts(profile, clean_output) = <<>> THEN "PROCESSING"
             ELSE IF GreenArrows(clean_output) # <<>> THEN "COMPLETED"
             ELSE IF ErrorCheck(clean_output) THEN "ERROR"
             ELSE IF permission_prompt_pattern(profile, clean_output)
                  THEN "WAITING_USER_ANSWER"
             ELSE "IDLE"

\* get_status, from the text the driver returned (lines 62-89)
get_status(profile, out) ==
    IF out = <<>> THEN "ERROR"
    ELSE LET clean_output == re_sub("ANSI_CODE_PATTERN", out)
         IN  IF IdlePrompts(profile, clean_output) = <<>> THEN "PROCESSING"
             ELSE IF ErrorCheck(clean_output) THEN "ERROR"
             ELSE IF permission_prompt_pattern(profile, clean_output)
                  THEN "WAITING_USER_ANSWER"
             ELSE IF GreenArrows(clean_output) # <<>> THEN "COMPLETED"
             ELSE "IDLE"

\* what an extraction call comes to: the text it returns, or the ValueError it raises
Returned(text) == [kind |-> "returned", text |-> text]
Raised(error)  == [kind |-> error, text |-> <<>>]

\* the clean-up, were the control characters left in
CleanUp_without_control_char_pass(final_answer) ==
    Strip(re_sub("ESCAPE_SEQUENCE_PATTERN",
          re_sub("ANSI_CODE_PATTERN", final_answer)))

\* the clean-up of lines 115-119
CleanUp(final_answer) ==
    Strip(re_sub("CONTROL_CHAR_PATTERN",
          re_sub("ESCAPE_SEQUENCE_PATTERN",
          re_sub("ANSI_CODE_PATTERN", final_answer))))

\* extraction, were the response taken from the first marker on
extract_from_first_marker(profile, script_output) ==
    LET clean_output == re_sub("ANSI_CODE_PATTERN", script_output)
        green_arrows == GreenArrows(clean_output)
        idle_prompts == IdlePrompts(profile, clean_output)
    IN  IF green_arrows = <<>> THEN Raised("No Copilot CLI response found")
        ELSE IF idle_prompts = <<>> THEN Raised("Incomplete Copilot CLI response")
        ELSE LET start_pos == green_arrows[1][2]
                 end_pos == idle_prompts[Len(idle_prompts)][1]
                 final_answer == Strip(Slice(clean_output, start_pos, end_pos))
             IN  IF final_answer = <<>> THEN Raised("Empty Copilot CLI response")
                 ELSE Returned(CleanUp(final_answer))

\* extraction, were the idle prompt missed before the response marker
extract_prompt_checked_first(profile, script_output) ==
    LET clean_output == re_sub("ANSI_CODE_PATTERN", script_output)
        green_arrows == GreenArrows(clean_output)
        idle_prompts == IdlePrompts(profile, clean_output)
    IN  IF idle_prompts = <<>> THEN Raised("Incomplete Copilot CLI response")
        ELSE IF green_arrows = <<>> THEN Raised("No Copilot CLI response found")
        ELSE LET start_pos == green_arrows[Len(green_arrows)][2]
                 end_pos == idle_prompts[Len(idle_prompts)][1]
                 final_answer == Strip(Slice(clean_output, start_pos, end_pos))
             IN  IF final_answer = <<>> THEN Raised("Empty Copilot CLI response")
                 ELSE Returned(CleanUp(final_answer))

\* extraction, were the slice taken from the raw snapshot at the offsets found in
\* the color-stripped one
extract_slicing_raw(profile, script_output) ==
    LET clean_output == re_sub("ANSI_CODE_PATTERN", script_output)
        green_arrows == GreenArrows(clean_output)
        idle_prompts == IdlePrompts(profile, clean_output)
    IN  IF green_arrows = <<>> THEN Raised("No Copilot CLI response found")
        ELSE IF idle_prompts = <<>> THEN Raised("Incomplete Copilot CLI response")
        ELSE LET start_pos == green_arrows[Len(green_arrows)][2]
                 end_pos == idle_prompts[Len(idle_prompts)][1]
                 final_answer == Strip(Slice(script_output, start_pos, end_pos))
             IN  IF final_answer = <<>> THEN Raised("Empty Copilot CLI response")
                 ELSE Returned(CleanUp(final_answer))

\* extract_last_message_from_script
extract_last_message_from_script(profile, script_output) ==
    LET clean_output == re_sub("ANSI_CODE_PATTERN", script_output)
        green_arrows == GreenArrows(clean_output)
        idle_prompts == IdlePrompts(profile, clean_output)
    IN  IF green_arrows = <<>> THEN Raised("No Copilot CLI response found")
        ELSE IF idle_prompts = <<>> THEN Raised("Incomplete Copilot CLI response")
        ELSE LET start_pos == green_arrows[Len(green_arrows)][2]
                 end_pos == idle_prompts[Len(idle_prompts)][1]
                 final_answer == Strip(Slice(clean_output, start_pos, end_pos))
             IN  IF final_answer = <<>> THEN Raised("Empty Copilot CLI response")
                 ELSE Returned(CleanUp(final_answer))

----------------------------------------------------------------------------
(* The terminal: what it prints, one chunk at a time.                      *)

Dev == <<"d", "e", "v">>

\* the settled prompt of profile dev, bare: "[dev]>"
PromptBare == <<"[", "d", "e", "v", "]", ">">>

\* the settled prompt in colors, with usage percentage, "!" and trailing blanks:
\* "\x1b[36m[dev] 45% !\x1b[35m>\x1b[0m \n"
PromptFull ==
    <<ESC, "[", "3", "6", "m", "[", "d", "e", "v", "]", " ", "4", "5", "%", " ", "!",
      ESC, "[", "3", "5", "m", ">", ESC, "[", "0", "m", " ", "\n">>

\* the settled prompt of another profile: "[rev]>"
PromptOther == <<"[", "r", "e", "v", "]", ">">>

\* the vendor's error banner, in mixed case, on a line of its own
ErrorBanner ==
    <<"C", "O", "P", "I", "L", "O", "T", " ", "i", "s", " ", "h", "a", "v", "i", "n",
      "g", " ", "t", "r", "o", "u", "b", "l", "e", " ", "r", "e", "s", "p", "o", "n",
      "d", "i", "n", "g", " ", "r", "i", "g", "h", "t", " ", "n", "o", "w", "\n">>

\* the permission question: "Allow this action? [y/n/t]: "
PermissionQuestion == AllowThisAction \o <<" ", "[", "y", "/", "n", "/", "t", "]", ":", " ">>

\* a response line in color: "\x1b[32m> \x1b[39mok\n"
ResponseLine ==
    <<ESC, "[", "3", "2", "m", ">", " ", ESC, "[", "3", "9", "m", "o", "k", "\n">>

\* the response marker alone, in color: "\x1b[32m> \x1b[39m"
Marker == <<ESC, "[", "3", "2", "m", ">", " ", ESC, "[", "3", "9", "m">>

NewLine == <<"\n">>

\* an earlier turn, response and settled prompt: "> old\n[dev]>\n"
EarlierTurn ==
    <<">", " ", "o", "l", "d", "\n", "[", "d", "e", "v", "]", ">", "\n">>

\* response text with a bell and a bare escape byte in it: "a\x07\x1bb"
Noisy == <<"a", BEL, ESC, "b">>

\* a cursor-control sequence, erase line: "\x1b[2K"
EraseLine == <<ESC, "[", "2", "K">>

\* response text in brackets: "[[ok]]"
Bracketed == <<"[", "[", "o", "k", "]", "]">>

\* a color sequence printed inside another one: "\x1b[\x1b[0m0m"
NestedColor == <<ESC, "[", ESC, "[", "0", "m", "0", "m">>

\* what the terminal prints where classification is checked
StatusChunks ==
    {PromptBare, PromptFull, PromptOther, ErrorBanner, PermissionQuestion,
     ResponseLine, NewLine}

\* what the terminal prints where extraction is checked
ExtractChunks ==
    {EarlierTurn, Marker, Noisy, PromptBare, EraseLine, Bracketed, NewLine,
     NestedColor}

\* what the terminal prints where the provider's life cycle is checked
ProviderChunks == {PromptBare, Marker, <<"h", "i", "\n">>}

\* what the terminal prints where the scrollback is followed over several turns
HistoryChunks == {PromptBare, ResponseLine, Marker, PermissionQuestion, ErrorBanner}

\* the characters profile names are made of where profiles are compared: a letter,
\* a regex metacharacter and the two brackets
ProfileChars == {"a", ".", "[", "]"}

MaxProfileLen == 2

\* the profile names of up to MaxProfileLen characters
Profiles == UNION { [1..n -> ProfileChars] : n \in 1..MaxProfileLen }

\* the settled prompt as the vendor CLI renders it for a profile: "[profile]>"
SettledPrompt(profile) == <<"[">> \o profile \o <<"]", ">">>

MaxStatusChunks == 4
MaxExtractChunks == 4
MaxChunks == 4
MaxHistoryChunks == 4
MaxLaunches == 2
MaxTailLines == 1

----------------------------------------------------------------------------
(* The driver and the polling primitives, which are not part of the provider. *)

\* tail_lines of get_status and get_history: None, or a number of lines (held in a
\* one-element sequence)
None == <<>>
TailLines == {None} \cup {<<n>> : n \in 1..MaxTailLines}

\* the last n lines of s, a line running up to and including its line feed
LastLines(s, n) ==
    LET starts == {i \in 1..Len(s) : i = 1 \/ s[i - 1] = "\n"}
        from   == {p \in starts : Cardinality({q \in starts : q >= p}) <= n}
    IN  IF from = {} THEN <<>>
        ELSE SubSeq(s, CHOOSE p \in from : \A q \in from : p <= q, Len(s))

\* tmux_client.get_history: the scrollback, its last tail_lines lines when a tail
\* limit is given, or nothing when the pane cannot be read
get_history(readable, tail_lines) ==
    IF ~readable THEN <<>>
    ELSE IF tail_lines = None THEN history
    ELSE LastLines(history, tail_lines[1])

\* f"copilot --agent {self._agent_profile}"
LaunchCommand(profile) ==
    <<"c", "o", "p", "i", "l", "o", "t", " ", "-", "-", "a", "g", "e", "n", "t", " ">>
        \o profile

\* the pane the provider was built for: self.session_name, self.window_name
session_name == "test-session"
window_name == "window-0"

\* tmux_client.send_keys(session, window, command), as the driver receives it
send_keys(session, window, command) ==
    [session |-> session, window |-> window, keys |-> command]

\* the TimeoutError messages of initialize
ShellTimeout == "Shell initialization timed out after 10 seconds"
AgentStartTimeout == "Copilot CLI initialization timed out after 30 seconds"

\* IDLE_PROMPT_PATTERN_LOG, the pattern text; "\\x1b" is the four characters the
\* raw string holds
IDLE_PROMPT_PATTERN_LOG == "\\x1b\\[38;5;13m>\\s*\\x1b\\[39m"

\* get_idle_pattern_for_log()
get_idle_pattern_for_log == IDLE_PROMPT_PATTERN_LOG

\* exit_cli()
exit_cli == "/exit"

\* get_status calls that fit into the 30 seconds of wait_until_status
MaxPolls == 2

----------------------------------------------------------------------------
(* The state machine.                                                      *)

NoText == [called |-> FALSE, text |-> <<>>]
Text(s) == [called |-> TRUE, text |-> s]
NoAnswer == [kind |-> "none", text |-> <<>>]
\* what a call came to: the value it returned, or the TimeoutError it raised
NoResult == [op |-> "none", kind |-> "none", value |-> "none"]
Result(op, value) == [op |-> op, kind |-> "returned", value |-> value]
Failure(op, error) == [op |-> op, kind |-> "raised", value |-> error]

Init ==
    /\ history = <<>>
    /\ chunks = 0
    /\ keys = <<>>
    /\ agent_profile = Dev
    /\ initialized = FALSE
    /\ pc = "none"
    /\ polls = 0
    /\ result = NoResult
    /\ output = NoText
    /\ status = "NONE"
    /\ script = NoText
    /\ answer = NoAnswer

\* a provider built for any profile
InitProfiles ==
    /\ history = <<>>
    /\ chunks = 0
    /\ keys = <<>>
    /\ agent_profile \in Profiles
    /\ initialized = FALSE
    /\ pc = "none"
    /\ polls = 0
    /\ result = NoResult
    /\ output = NoText
    /\ status = "NONE"
    /\ script = NoText
    /\ answer = NoAnswer

\* the pane, still blank, comes to show the settled prompt of some profile
SettledPromptShown ==
    /\ history = <<>>
    /\ \E q \in Profiles : history' = SettledPrompt(q)
    /\ chunks' = chunks + 1
    /\ UNCHANGED <<keys, agent_profile, initialized, pc, polls, result, calls>>

\* the terminal prints one more chunk out of Chunks
TerminalOutput(Chunks, max) ==
    /\ chunks < max
    /\ \E c \in Chunks : history' = history \o c
    /\ chunks' = chunks + 1
    /\ output' = NoText /\ status' = "NONE" /\ script' = NoText /\ answer' = NoAnswer
    /\ result' = NoResult
    /\ UNCHANGED <<keys, agent_profile, initialized, pc, polls>>

\* the terminal prints one more chunk while the orchestrator keeps what its last
\* calls gave it
TerminalPrints(Chunks, max) ==
    /\ chunks < max
    /\ \E c \in Chunks : history' = history \o c
    /\ chunks' = chunks + 1
    /\ UNCHANGED <<keys, agent_profile, initialized, pc, polls, result, calls>>

\* provider.get_status(tail_lines): one snapshot from the driver, with the tail limit
\* handed on to it, classified
GetStatus ==
    /\ pc = "none"
    /\ \E readable \in BOOLEAN, tail_lines \in TailLines :
          /\ output' = Text(get_history(readable, tail_lines))
          /\ status' = get_status(agent_profile, get_history(readable, tail_lines))
    /\ UNCHANGED <<history, chunks, keys, agent_profile, initialized, pc, polls, result,
                   script, answer>>

\* provider.extract_last_message_from_script(snapshot), the orchestrator handing in
\* the scrollback
Extract ==
    /\ pc = "none"
    /\ script' = Text(history)
    /\ answer' = extract_last_message_from_script(agent_profile, history)
    /\ UNCHANGED <<history, chunks, keys, agent_profile, initialized, pc, polls, result,
                   output, status>>

\* the orchestrator's hand-off: it has seen COMPLETED from get_status, retrieves the
\* scrollback and calls extract_last_message_from_script on it
ExtractAfterCompleted ==
    /\ status = "COMPLETED"
    /\ Extract

\* initialize(), were the launch command sent before the shell is waited for
InitializeCall_sending_first ==
    /\ pc = "none"
    /\ Len(keys) < MaxLaunches
    /\ pc' = "wait_for_shell"
    /\ result' = NoResult
    /\ keys' = Append(keys, send_keys(session_name, window_name,
                                      LaunchCommand(agent_profile)))
    /\ UNCHANGED <<history, chunks, agent_profile, initialized, polls, calls>>

\* initialize() is called: it starts with wait_for_shell
InitializeCall ==
    /\ pc = "none"
    /\ Len(keys) < MaxLaunches
    /\ pc' = "wait_for_shell"
    /\ result' = NoResult
    /\ UNCHANGED <<history, chunks, keys, agent_profile, initialized, polls, calls>>

\* wait_for_shell returns False: initialize raises the shell timeout
InitializeShellTimeout ==
    /\ pc = "wait_for_shell"
    /\ pc' = "none"
    /\ result' = Failure("initialize", ShellTimeout)
    /\ UNCHANGED <<history, chunks, keys, agent_profile, initialized, polls, calls>>

\* wait_for_shell returns True: the launch command is sent, the status wait begins
InitializeLaunch ==
    /\ pc = "wait_for_shell"
    /\ keys' = Append(keys, send_keys(session_name, window_name,
                                      LaunchCommand(agent_profile)))
    /\ pc' = "wait_until_status"
    /\ polls' = 0
    /\ UNCHANGED <<history, chunks, agent_profile, initialized, result, calls>>

\* one poll of wait_until_status: get_status, and on IDLE the wait returns True,
\* the flag is set and initialize returns True
InitializePoll ==
    /\ pc = "wait_until_status"
    /\ polls < MaxPolls
    /\ \E readable \in BOOLEAN :
          LET s == get_status(agent_profile, get_history(readable, None))
          IN  /\ output' = Text(get_history(readable, None))
              /\ status' = s
              /\ initialized' = (IF s = "IDLE" THEN TRUE ELSE initialized)
              /\ pc' = IF s = "IDLE" THEN "none" ELSE pc
              /\ polls' = IF s = "IDLE" THEN 0 ELSE polls + 1
              /\ result' = IF s = "IDLE" THEN Result("initialize", "True") ELSE result
    /\ UNCHANGED <<history, chunks, keys, agent_profile, script, answer>>

\* initialize, were the status wait begun again when it returns False
InitializeStatusTimeout_waiting_again ==
    /\ pc = "wait_until_status"
    /\ polls > 0
    /\ pc' = "wait_until_status"
    /\ polls' = 0
    /\ UNCHANGED <<history, chunks, keys, agent_profile, initialized, result, calls>>

\* the timeout of wait_until_status, were the flag cleared on that failure
InitializeStatusTimeout_clearing_flag ==
    /\ pc = "wait_until_status"
    /\ pc' = "none"
    /\ polls' = 0
    /\ result' = Failure("initialize", AgentStartTimeout)
    /\ initialized' = FALSE
    /\ UNCHANGED <<history, chunks, keys, agent_profile, calls>>

\* the timeout of wait_until_status elapses: it returns False, initialize raises
InitializeStatusTimeout ==
    /\ pc = "wait_until_status"
    /\ pc' = "none"
    /\ polls' = 0
    /\ result' = Failure("initialize", AgentStartTimeout)
    /\ UNCHANGED <<history, chunks, keys, agent_profile, initialized, calls>>

\* cleanup()
Cleanup ==
    /\ pc = "none"
    /\ initialized' = FALSE
    /\ UNCHANGED <<history, chunks, keys, agent_profile, pc, polls, result, calls>>

\* get_idle_pattern_for_log()
GetIdlePatternForLog ==
    /\ pc = "none"
    /\ result' = Result("get_idle_pattern_for_log", get_idle_pattern_for_log)
    /\ UNCHANGED <<history, chunks, keys, agent_profile, initialized, pc, polls, calls>>

\* exit_cli(), were the flag cleared by it
ExitCli_clearing_flag ==
    /\ pc = "none"
    /\ result' = Result("exit_cli", exit_cli)
    /\ initialized' = FALSE
    /\ UNCHANGED <<history, chunks, keys, agent_profile, pc, polls, calls>>

\* exit_cli()
ExitCli ==
    /\ pc = "none"
    /\ result' = Result("exit_cli", exit_cli)
    /\ UNCHANGED <<history, chunks, keys, agent_profile, initialized, pc, polls, calls>>

\* the provider with its life cycle
Next ==
    \/ TerminalOutput(ProviderChunks, MaxChunks)
    \/ GetStatus
    \/ Extract
    \/ InitializeCall
    \/ InitializeShellTimeout
    \/ InitializeLaunch
    \/ InitializePoll
    \/ InitializeStatusTimeout
    \/ Cleanup
    \/ GetIdlePatternForLog
    \/ ExitCli

Spec == Init /\ [][Next]_vars

\* a step of the running initialize call: of one of its two waits
InitializeStep ==
    \/ InitializeShellTimeout
    \/ InitializeLaunch
    \/ InitializePoll
    \/ InitializeStatusTimeout

\* the provider with its life cycle, the running call being kept running: the wait
\* primitives are loops that poll, sleep and give up when their timeout has elapsed
FairSpec == Spec /\ WF_vars(InitializeStep)

\* classification of what the terminal can show
NextStatus ==
    \/ TerminalOutput(StatusChunks, MaxStatusChunks)
    \/ GetStatus

SpecStatus == Init /\ [][NextStatus]_vars

\* providers of any profile classifying the settled prompt of any profile
NextProfiles ==
    \/ SettledPromptShown
    \/ GetStatus

SpecProfiles == InitProfiles /\ [][NextProfiles]_vars

\* the hand-off of a response while the terminal goes on printing
NextHandoff ==
    \/ TerminalPrints(ProviderChunks, MaxChunks)
    \/ GetStatus
    \/ ExtractAfterCompleted

SpecHandoff == Init /\ [][NextHandoff]_vars

\* the scrollback growing over several turns while the orchestrator polls the
\* status and takes each response it sees completed
NextHistory ==
    \/ TerminalPrints(HistoryChunks, MaxHistoryChunks)
    \/ GetStatus
    \/ ExtractAfterCompleted

SpecHistory == Init /\ [][NextHistory]_vars

\* extraction from what the terminal can show
NextExtract ==
    \/ TerminalOutput(ExtractChunks, MaxExtractChunks)
    \/ Extract

SpecExtract == Init /\ [][NextExtract]_vars

----------------------------------------------------------------------------
(* What a snapshot contains, in the words of the claims.  Each predicate   *)
(* is about c, the snapshot without its color sequences.                   *)

\* the snapshot without its color sequences
Clean(s) == re_sub("ANSI_CODE_PATTERN", s)

\* the profile's idle prompt ends c
HasIdlePrompt(c) == \E i \in 1..Len(c) : idle_prompt_pattern(agent_profile, c, i, FALSE)

\* c is the profile's idle prompt and nothing else
IsIdlePromptOnly(c) == idle_prompt_pattern(agent_profile, c, 1, FALSE)

\* an error phrase occurs in c, in any case
HasErrorPhrase(c) == \E indicator \in ERROR_INDICATORS : InLower(indicator, c)

\* the places where ">" starts a line of c
MarkerStarts(c) == {i \in 1..Len(c) : c[i] = ">" /\ LineStart(c, i)}

HasResponseMarker(c) == MarkerStarts(c) # {}

\* "Allow this action? [y/n/t]:"
PermissionPhrase == AllowThisAction \o <<" ", "[", "y", "/", "n", "/", "t", "]", ":">>

\* the permission-request phrase occurs somewhere in c
HasPermissionPhrase(c) == \E i \in 1..Len(c) : LiteralAt(c, i, PermissionPhrase)

\* the permission-request phrase occurs in c with nothing but whitespace between it
\* and an idle prompt of the profile that ends its line
HasPermissionPhraseAtPrompt(c) ==
    \E i \in 1..Len(c) :
        /\ LiteralAt(c, i, PermissionPhrase)
        /\ idle_prompt_pattern(agent_profile, c,
               SkipWhile(c, i + Len(PermissionPhrase), Whitespace), TRUE)

\* the provider's permission prompt pattern matches c
HasPermissionPrompt(c) == permission_prompt_pattern(agent_profile, c)

\* get_status has classified a snapshot that was not empty
Classified == output.called /\ output.text # <<>>

----------------------------------------------------------------------------
(* Claims on classification.                                               *)

\* C1: a non-empty snapshot whose color-stripped text does not end in the idle
\* prompt is classified PROCESSING, whatever else it contains.
C1_NoIdlePromptIsProcessing ==
    LET c == Clean(output.text)
    IN  (Classified /\ ~HasIdlePrompt(c)) => status = "PROCESSING"

\* C1 happens: PROCESSING for a snapshot with an error phrase, a permission
\* question and a response marker in it.
C1_Witness ==
    LET c == Clean(output.text)
    IN  /\ Classified /\ status = "PROCESSING"
        /\ HasErrorPhrase(c) /\ HasPermissionPhrase(c) /\ HasResponseMarker(c)

\* C2: a snapshot with the idle prompt and an error phrase is classified ERROR,
\* also with a response marker or a permission prompt in it.
C2_ErrorHasPriority ==
    LET c == Clean(output.text)
    IN  (Classified /\ HasIdlePrompt(c) /\ HasErrorPhrase(c)) => status = "ERROR"

\* C2 happens: ERROR for a settled snapshot that has the error phrase, a response
\* marker and a permission prompt.
C2_Witness ==
    LET c == Clean(output.text)
    IN  /\ Classified /\ status = "ERROR"
        /\ HasIdlePrompt(c) /\ HasErrorPhrase(c)
        /\ HasResponseMarker(c) /\ HasPermissionPrompt(c)

\* C3 as stated: idle prompt, permission-request phrase anywhere and no error
\* phrase give WAITING_USER_ANSWER.
C3_PhraseAnywhereIsWaiting ==
    LET c == Clean(output.text)
    IN  (/\ Classified /\ HasIdlePrompt(c)
         /\ HasPermissionPhrase(c) /\ ~HasErrorPhrase(c))
            => status = "WAITING_USER_ANSWER"

\* C3 amended: idle prompt, no error phrase, and the permission-request phrase with
\* only whitespace between it and an idle prompt that ends its line give
\* WAITING_USER_ANSWER, with or without a response marker.
C3_PhraseAtPromptIsWaiting ==
    LET c == Clean(output.text)
    IN  (/\ Classified /\ HasIdlePrompt(c)
         /\ HasPermissionPhraseAtPrompt(c) /\ ~HasErrorPhrase(c))
            => status = "WAITING_USER_ANSWER"

\* C3 happens: WAITING_USER_ANSWER for a snapshot that also has a response marker.
C3_Witness ==
    LET c == Clean(output.text)
    IN  /\ Classified /\ status = "WAITING_USER_ANSWER"
        /\ HasPermissionPhraseAtPrompt(c)
        /\ HasResponseMarker(c)

\* C4: idle prompt and response marker, no error phrase and no permission prompt
\* (no match of the provider's permission pattern) give COMPLETED.
C4_MarkerIsCompleted ==
    LET c == Clean(output.text)
    IN  (/\ Classified /\ HasIdlePrompt(c) /\ HasResponseMarker(c)
         /\ ~HasErrorPhrase(c) /\ ~HasPermissionPrompt(c))
            => status = "COMPLETED"

\* C4 happens: COMPLETED for a snapshot whose response marker is not on its first
\* line, and which holds a permission question that no prompt follows.
C4_Witness ==
    LET c == Clean(output.text)
    IN  /\ Classified /\ status = "COMPLETED"
        /\ HasResponseMarker(c) /\ 1 \notin MarkerStarts(c)
        /\ HasPermissionPhrase(c)

\* C5: a snapshot that is the idle prompt only, with no response marker, is IDLE;
\* and IDLE is the result exactly when the idle prompt is there and none of the
\* error, permission and response-marker checks matches.
C5_IdleIsTheDefault ==
    LET c == Clean(output.text)
    IN  output.called =>
            /\ (IsIdlePromptOnly(c) /\ ~HasResponseMarker(c)) => status = "IDLE"
            /\ status = "IDLE" <=>
                   /\ output.text # <<>>
                   /\ HasIdlePrompt(c)
                   /\ ~HasErrorPhrase(c)
                   /\ ~HasPermissionPrompt(c)
                   /\ ~HasResponseMarker(c)

\* C5 happens: IDLE for the prompt with percentage, "!" and a blank line after it.
C5_Witness ==
    LET c == Clean(output.text)
    IN  /\ output.called /\ status = "IDLE"
        /\ IsIdlePromptOnly(c)
        /\ \E i \in 1..Len(c) : c[i] = "%"
        /\ Len(c) >= 2 /\ c[Len(c) - 1] = "\n" /\ c[Len(c)] = "\n"

\* C6: an empty or unavailable snapshot is classified ERROR, a value, in every
\* state of the provider.
C6_EmptySnapshotIsError ==
    (output.called /\ output.text = <<>>) => status = "ERROR"

\* C6 happens: ERROR for an unreadable pane whose scrollback is not empty, on an
\* initialized provider.
C6_Witness ==
    /\ output.called /\ output.text = <<>> /\ status = "ERROR"
    /\ history # <<>>
    /\ initialized

----------------------------------------------------------------------------
(* Claims on extraction.                                                   *)

\* the greatest element of a non-empty set of integers
Max(S) == CHOOSE x \in S : \A y \in S : x >= y

\* where the last response marker of c starts
LastMarker(c) == Max(MarkerStarts(c))

\* where the idle prompt that ends c starts
PromptStart(c) ==
    Min({i \in 1..Len(c) : idle_prompt_pattern(agent_profile, c, i, FALSE)})

\* the trimmed text between the last response marker of c and the idle prompt
\* that ends c (nothing when the marker is not before the prompt)
Content(c) ==
    Strip(SubSeq(c, SkipWhile(c, LastMarker(c) + 1, Whitespace), PromptStart(c) - 1))

\* c holds two turns: a response marker, a settled prompt at the end of a line,
\* then the last response marker and after it the idle prompt that ends c
TwoTurns(c) ==
    /\ HasResponseMarker(c) /\ HasIdlePrompt(c)
    /\ LastMarker(c) < PromptStart(c)
    /\ \E m \in MarkerStarts(c) : \E j \in (m + 1)..(LastMarker(c) - 1) :
           idle_prompt_pattern(agent_profile, c, j, TRUE)

\* the errors of extraction
NoResponseFound == "No Copilot CLI response found"
IncompleteResponse == "Incomplete Copilot CLI response"
EmptyResponse == "Empty Copilot CLI response"

\* C7 as stated, where extraction returns: on a scrollback of two turns the text
\* returned is exactly the trimmed content between the last response marker and
\* the last idle prompt.
C7_ReturnsContentUnchanged ==
    LET c == Clean(script.text)
    IN  (script.called /\ TwoTurns(c) /\ answer.kind = "returned")
            => answer.text = Content(c)

\* C7 amended: on a scrollback of two turns extraction fails with the empty
\* response error when the trimmed content between the last response marker and
\* the last idle prompt is empty, and else returns that content after the
\* clean-up pass: text of the newest turn only.
C7_ReturnsCleanedLastTurn ==
    LET c == Clean(script.text)
    IN  (script.called /\ TwoTurns(c)) =>
            IF Content(c) = <<>> THEN answer = Raised(EmptyResponse)
            ELSE answer = Returned(CleanUp(Content(c)))

\* C7 happens: text returned from the second of two turns, the clean-up pass
\* having taken characters out of it.
C7_Witness ==
    LET c == Clean(script.text)
    IN  /\ script.called /\ TwoTurns(c)
        /\ answer.kind = "returned" /\ answer.text # <<>>
        /\ answer.text # Content(c)

\* what extraction comes to on c, by the order of its checks
OutcomeKind(c) ==
    IF ~HasResponseMarker(c) THEN NoResponseFound
    ELSE IF ~HasIdlePrompt(c) THEN IncompleteResponse
    ELSE IF Content(c) = <<>> THEN EmptyResponse
    ELSE "returned"

\* C8: extraction fails with "no response found" when there is no response marker,
\* else with "incomplete response" when no idle prompt ends the snapshot, else with
\* "empty response" when the trimmed text between the two is empty, and else
\* returns; and a call that fails leaves the provider's fields as they were.
C8_FailureOrder ==
    /\ [](script.called => answer.kind = OutcomeKind(Clean(script.text)))
    /\ [][(answer' # answer
             /\ answer'.kind \in {NoResponseFound, IncompleteResponse, EmptyResponse})
            => UNCHANGED provider]_vars

\* C8 happens: the empty response error, raised on an initialized provider for a
\* snapshot that has the marker and the prompt.
C8_Witness ==
    /\ script.called /\ answer.kind = EmptyResponse
    /\ HasIdlePrompt(Clean(script.text))
    /\ initialized

\* the bytes 0x00-0x1f and 0x7f
ControlBytes ==
    {NUL, "SOH", "STX", "ETX", "EOT", "ENQ", "ACK", BEL, "BS", "\t", "\n", "VT", "FF",
     "\r", "SO", "SI", "DLE", "DC1", "DC2", "DC3", "DC4", "NAK", "SYN", "ETB", "CAN",
     "EM", "SUB", ESC, FS, "GS", "RS", "US", DEL}

\* C9: the text extraction returns holds no escape byte and no control byte.
C9_NoControlBytes ==
    answer.kind = "returned" =>
        \A k \in 1..Len(answer.text) : answer.text[k] \notin ControlBytes

\* C9 happens: text returned for a response with a bell, a bare escape byte and a
\* cursor-control sequence in it.
C9_Witness ==
    LET c == Clean(script.text)
    IN  /\ script.called /\ answer.kind = "returned" /\ answer.text # <<>>
        /\ \E i \in 1..Len(Content(c)) : Content(c)[i] = BEL
        /\ \E i \in 1..Len(Content(c)) : LiteralAt(Content(c), i, EraseLine)

\* text between a synthetic response marker and a synthetic idle prompt of the
\* profile: "> " text "\n[profile]>"
Wrapped(text) ==
    <<">", " ">> \o text \o <<"\n", "[">> \o agent_profile \o <<"]", ">">>

\* C10: extraction from the wrapped text it returned returns that text again.
C10_Idempotent ==
    answer.kind = "returned" =>
        extract_last_message_from_script(agent_profile, Wrapped(answer.text))
            = Returned(answer.text)

----------------------------------------------------------------------------
(* Claims on what the clean-up keeps.                                      *)

\* the control bytes that are not whitespace
NonWhitespaceControl == ControlChars \ Whitespace

\* the indices of t that an escape sequence led by ESC takes: ESC, "[", parameters
\* and the final letter
InEscapeSequence(t) ==
    UNION { i..ESCAPE_SEQUENCE_PATTERN(t, i + 1) :
            i \in {j \in 1..(Len(t) - 1) :
                      t[j] = ESC /\ ESCAPE_SEQUENCE_PATTERN(t, j + 1) > 0} }

\* t without its escape sequences and without its control bytes other than
\* whitespace; every other character is kept, in order
Preserved(t) ==
    LET gone == InEscapeSequence(t)
        kept == SelectSeq(Indices(t),
                          LAMBDA i : i \notin gone /\ t[i] \notin NonWhitespaceControl)
    IN  [k \in 1..Len(kept) |-> t[kept[k]]]

\* C11: the text extraction returns is the response between the last marker and the
\* idle prompt with only its escape sequences and its non-whitespace control bytes
\* removed: printable characters and interior whitespace are all there, in order.
C11_KeepsPrintableText ==
    answer.kind = "returned" =>
        answer.text = Strip(Preserved(Content(Clean(script.text))))

----------------------------------------------------------------------------
(* Claims on the color-stripped buffer.                                    *)

\* the start of a color sequence, ESC "[", stands somewhere in text
HasColorStart(text) == \E i \in 1..Len(text) : LiteralAt(text, i, <<ESC, "[">>)

\* removing the color sequences of s leaves no color sequence behind
StripsInOnePass(s) == Clean(Clean(s)) = Clean(s)

\* C12 as stated: on every raw snapshot extraction comes to what it comes to on the
\* snapshot with its color sequences removed beforehand, and the text returned
\* holds no start of a color sequence.
C12_SameOnEverySnapshot ==
    script.called =>
        /\ answer = extract_last_message_from_script(agent_profile, Clean(script.text))
        /\ answer.kind = "returned" => ~HasColorStart(answer.text)

\* C12, corrected: on every raw snapshot whose color sequences are removed in one
\* pass (none is printed inside another) extraction comes to what it comes to on
\* the snapshot with its color sequences removed beforehand, and the text returned
\* holds no start of a color sequence.
C12_SameOnStrippedSnapshot ==
    script.called /\ StripsInOnePass(script.text) =>
        /\ answer = extract_last_message_from_script(agent_profile, Clean(script.text))
        /\ answer.kind = "returned" => ~HasColorStart(answer.text)

\* C12 happens: text returned from a snapshot that has color sequences before the
\* response and none inside another.
C12_Witness ==
    /\ script.called /\ answer.kind = "returned" /\ answer.text # <<>>
    /\ StripsInOnePass(script.text)
    /\ \E i \in 1..Len(script.text) :
          /\ ANSI_CODE_PATTERN(script.text, i) > 0
          /\ i < LastMarker(Clean(script.text))

----------------------------------------------------------------------------
(* Claims on the profile in the prompt pattern.                            *)

\* the profile whose settled prompt the pane shows
ShownProfile == SubSeq(history, 2, Len(history) - 2)

\* get_status has classified the settled prompt the pane shows
ClassifiedPrompt == output.called /\ history # <<>> /\ output.text = history

\* C13: the idle prompt pattern of the provider's profile matches the settled
\* prompt of a profile exactly when it is the provider's own, and get_status gives
\* IDLE for its own settled prompt and PROCESSING for that of any other profile.
C13_MatchesOwnProfileOnly ==
    ClassifiedPrompt =>
        /\ HasIdlePrompt(history) <=> ShownProfile = agent_profile
        /\ status = IF ShownProfile = agent_profile THEN "IDLE" ELSE "PROCESSING"

----------------------------------------------------------------------------
(* Claims on initialize and the initialized flag.                          *)

\* the launch command as the driver receives it for the provider's own pane
Launch == send_keys(session_name, window_name, LaunchCommand(agent_profile))

\* initialize has returned True
InitializeSucceeded == result = Result("initialize", "True")

\* C14: keys are sent only when the shell wait has returned true, and then the launch
\* command once, to the provider's own pane, with the status wait beginning; the
\* status wait never goes back to the shell wait, so one call sends once; initialize
\* returns True only from the status wait on a poll that gave IDLE, and it is then
\* that the flag is set; the flag is not set in any other step.
C14_InitializeOrder ==
    /\ [][keys' # keys =>
            /\ pc = "wait_for_shell" /\ pc' = "wait_until_status"
            /\ keys' = Append(keys, Launch)]_vars
    /\ [](pc = "wait_until_status" => keys # <<>> /\ keys[Len(keys)] = Launch)
    /\ [][pc = "wait_until_status" => pc' \in {"wait_until_status", "none"}]_vars
    /\ [][(result' # result /\ InitializeSucceeded') =>
            /\ pc = "wait_until_status" /\ pc' = "none"
            /\ output'.called /\ status' = "IDLE"
            /\ status' = get_status(agent_profile, output'.text)
            /\ initialized'
            /\ UNCHANGED keys]_vars
    /\ [][(initialized' /\ ~initialized) => (result' # result /\ InitializeSucceeded')]_vars

\* C14 happens: initialize has returned True on a pane that shows the settled
\* prompt; the launch command was sent once and the flag is set.
C14_Witness ==
    /\ InitializeSucceeded /\ initialized /\ pc = "none"
    /\ keys = <<Launch>>
    /\ status = "IDLE" /\ chunks > 0

\* initialize has raised the TimeoutError of the shell wait / of the status wait
ShellTimedOut == result = Failure("initialize", ShellTimeout)
AgentStartTimedOut == result = Failure("initialize", AgentStartTimeout)

\* C15: initialize leaves the shell wait without sending keys exactly by raising the
\* shell timeout error, with no key sent, no status poll made and the status wait
\* not begun; it raises the agent-start timeout error only from the status wait,
\* after the launch command; a status wait ends by that error or by success; and no
\* step of a call other than the one that returns True changes the flag.
C15_InitializeFailures ==
    /\ [][(pc = "wait_for_shell" /\ pc' # "wait_until_status" /\ pc' # pc) =>
            ShellTimedOut']_vars
    /\ [][(result' # result /\ ShellTimedOut') =>
            /\ pc = "wait_for_shell" /\ pc' = "none"
            /\ UNCHANGED <<keys, initialized, polls, output, status>>]_vars
    /\ [][(result' # result /\ AgentStartTimedOut') =>
            /\ pc = "wait_until_status" /\ pc' = "none"
            /\ keys # <<>> /\ keys[Len(keys)] = Launch
            /\ UNCHANGED <<keys, initialized>>]_vars
    /\ [][(pc = "wait_until_status" /\ pc' = "none") =>
            (AgentStartTimedOut' \/ (InitializeSucceeded' /\ status' = "IDLE"))]_vars
    /\ [][(pc # "none" /\ ~InitializeSucceeded') => UNCHANGED initialized]_vars

\* C15 happens: a provider that was initialized is initialized again, the launch
\* command is sent, a poll does not give IDLE and the status wait times out; the
\* flag is still set.
C15_Witness ==
    /\ AgentStartTimedOut /\ pc = "none"
    /\ initialized
    /\ Len(keys) = 2
    /\ output.called /\ status # "IDLE"

\* C16: the flag is false at construction; it becomes true only in the step in
\* which initialize returns True; it becomes false only by cleanup; get_status,
\* extraction, get_idle_pattern_for_log, exit_cli and every step of an initialize
\* call that fails leave it as it is; cleanup leaves it false and sends nothing to
\* the pane.
C16_FlagLifeCycle ==
    /\ ~initialized
    /\ [][(~initialized /\ initialized') => (InitializePoll /\ InitializeSucceeded')]_vars
    /\ [][(initialized /\ ~initialized') => Cleanup]_vars
    /\ [][(GetStatus \/ Extract \/ GetIdlePatternForLog \/ ExitCli \/ InitializeCall
           \/ InitializeShellTimeout \/ InitializeLaunch \/ InitializeStatusTimeout)
            => UNCHANGED initialized]_vars
    /\ [][Cleanup => (~initialized' /\ UNCHANGED <<keys, history>>)]_vars

\* C16 happens: initialize has returned True and cleanup has cleared the flag since.
C16_Witness ==
    /\ InitializeSucceeded /\ ~initialized /\ pc = "none"
    /\ keys = <<Launch>>

----------------------------------------------------------------------------
(* Claims on classification and extraction together.                       *)

\* C17: the extraction that follows a COMPLETED result of get_status is made on the
\* very text that get_status classified, whatever the terminal has printed in
\* between.
C17_ExtractsClassifiedSnapshot ==
    [][ExtractAfterCompleted => script'.text = output.text]_vars

----------------------------------------------------------------------------
(* Claims on termination.                                                  *)

\* C18: every initialize call that is running comes to an end: it returns True or
\* raises one of its two timeout errors, whatever the terminal does meanwhile.
C18_InitializeTerminates ==
    (pc # "none") ~>
        (pc = "none" /\ (InitializeSucceeded \/ ShellTimedOut \/ AgentStartTimedOut))

\* C18 happens: the status wait has made all the polls its timeout allows and none
\* gave IDLE.
C18_Witness ==
    /\ pc = "wait_until_status" /\ polls = MaxPolls
    /\ output.called /\ status # "IDLE"

----------------------------------------------------------------------------
(* Claims on the scrollback as it grows.                                   *)

\* get_status has read the whole scrollback as it stands
ReadInFull == output.called /\ output.text = history

\* a vendor error phrase stands in the scrollback h
ErrorIn(h) == LET c == Clean(h) IN HasErrorPhrase(c)

\* C19: an error phrase that has appeared in the scrollback stays in it, and while
\* it is there a get_status that reads the scrollback in full gives ERROR when the
\* idle prompt is settled and PROCESSING when it is not, whatever was printed after
\* the phrase.
C19_ErrorStaysReported ==
    /\ [][ErrorIn(history) => ErrorIn(history')]_vars
    /\ []((ReadInFull /\ ErrorIn(history)) =>
            LET c == Clean(history)
            IN  status = IF HasIdlePrompt(c) THEN "ERROR" ELSE "PROCESSING")

\* C19 happens: the error banner was printed first, a response and a permission
\* prompt followed, the prompt has settled again and get_status gives ERROR.
C19_Witness ==
    LET c == Clean(history)
    IN  /\ ReadInFull /\ status = "ERROR"
        /\ LiteralAt(history, 1, ErrorBanner)
        /\ \E m \in MarkerStarts(c) : m > Len(ErrorBanner)
        /\ HasPermissionPrompt(c)

\* a response marker, the glyph at the start of a line, stands in the scrollback h
MarkerIn(h) == LET c == Clean(h) IN MarkerStarts(c) # {}

\* C21: a response marker that has appeared in the scrollback stays in it, and
\* while it is there and no error phrase is, a get_status that reads the scrollback
\* in full never gives IDLE: a settled prompt is classified COMPLETED or
\* WAITING_USER_ANSWER, whether or not the response was extracted before.
C21_CompletedStaysReported ==
    /\ [][MarkerIn(history) => MarkerIn(history')]_vars
    /\ []((ReadInFull /\ MarkerIn(history) /\ ~ErrorIn(history)) =>
            LET c == Clean(history)
            IN  /\ status # "IDLE"
                /\ HasIdlePrompt(c) =>
                      status \in {"COMPLETED", "WAITING_USER_ANSWER"})

\* C21 happens: a response was extracted from the scrollback, the terminal has
\* since printed more without a new response marker, and get_status, reading all
\* of it, gives COMPLETED for the prompt now settled.
C21_Witness ==
    LET c == Clean(history)
        e == Clean(script.text)
    IN  /\ ReadInFull /\ status = "COMPLETED"
        /\ script.called /\ answer.kind = "returned"
        /\ Len(script.text) < Len(history)
        /\ SubSeq(history, 1, Len(script.text)) = script.text
        /\ MarkerStarts(c) = MarkerStarts(e)

----------------------------------------------------------------------------
(* Claims on classification and extraction of one snapshot.                *)

\* get_status gave COMPLETED for a snapshot and extraction was made on that same
\* snapshot
ExtractedCompleted ==
    /\ output.called /\ status = "COMPLETED"
    /\ script.called /\ script.text = output.text

\* C20 as stated: extraction from a snapshot that get_status classifies COMPLETED
\* returns text that is not empty.
C20_CompletedHasResponse ==
    ExtractedCompleted => (answer.kind = "returned" /\ answer.text # <<>>)

\* C20, corrected: extraction from a snapshot that get_status classifies COMPLETED
\* finds a response marker and the idle prompt: it returns text or raises the
\* empty-response error, and it raises that error exactly when nothing but
\* whitespace stands between the last marker and the idle prompt.
C20_CompletedHasMarkerAndPrompt ==
    ExtractedCompleted =>
        LET c == Clean(script.text)
        IN  /\ answer.kind \in {"returned", EmptyResponse}
            /\ answer.kind = EmptyResponse <=> Content(c) = <<>>

\* C20 happens: COMPLETED for a snapshot with a response in it, and the response
\* extracted from that snapshot.
C20_Witness ==
    /\ ExtractedCompleted
    /\ answer = Returned(<<"h", "i">>)

====
